---------------------------- MODULE Spec2Model ----------------------------
(***************************************************************************)
(* Model of federated-data-management-portal/src/callbacks.py: the summary *)
(* scalars, the sample-size bar and donut charts, the FAIR data            *)
(* availability table and the completeness chart.                          *)
(*                                                                         *)
(* Every function of callbacks.py is a pure function of its arguments, so  *)
(* the state is the arguments a dashboard callback passes                  *)
(* (global_schema_data, descriptive_data, the stored availability table)   *)
(* and the outcome of the last call (ret).  A Python dict is a sequence in *)
(* insertion order, an exception is an outcome of kind "raise".            *)
(***************************************************************************)
EXTENDS Integers, Sequences, FiniteSets, TLC

VARIABLES
    global_schema_data,  \* argument global_schema_data
    descriptive_data,    \* argument descriptive_data: timestamp -> snapshot
    availability_data,   \* the stored data frame generate_completeness_chart reads
    ret                  \* the last call: function, outcome, selected timestamp

vars == <<global_schema_data, descriptive_data, availability_data, ret>>

---------------------------------------------------------------------------
(* Bounds of the model *)

\* organisations, sample sizes and snapshots of the summary inputs
MaxOrgs == 2
MaxSize == 2
MaxSnapshots == 2
\* organisations and sample sizes of the inputs that vary the proportions
MaxBarOrgs == 4
MaxBarSize == 5
\* records of one snapshot and the counts they carry, in the availability inputs
MaxRecords == 2
MaxCount == 1

---------------------------------------------------------------------------
(* Strings.  Python compares str values by code point; the strings that    *)
(* callbacks.py sorts are listed here in that ascending order.             *)

StrOrder == <<"A", "B", "BE", "C", "D", "E", "F", "NL", "Total AYAs">>

OrgOrder == <<"A", "B", "C", "D", "E", "F">>

Countries == {"BE", "NL"}

text == "AYA"

Range(s) == {s[i] : i \in DOMAIN s}

Min(a, b) == IF a < b THEN a ELSE b

\* sorted(strings): the strings of S in ascending str order
sorted(S) == SelectSeq(StrOrder, LAMBDA s : s \in S)

RECURSIVE Sum(_)
Sum(s) == IF s = <<>> THEN 0 ELSE Head(s) + Sum(Tail(s))

\* f"{n}" for a non-negative int: its decimal digits
RECURSIVE Decimal(_)
Decimal(n) == IF n < 10 THEN <<n>> ELSE Append(Decimal(n \div 10), n % 10)

\* A timestamp key is the ISO string f"2024-01-01T0{h}:00:00+0{o}:00", kept
\* as <<h, o>>, the two characters in which the keys of the model differ.
TimestampKey(h, o) == <<h, o>>

\* str comparison a < b of two keys: lexicographic, and all other characters
\* of the two strings are equal
StrLess(a, b) ==
    \E i \in 1..Len(a) : a[i] < b[i] /\ \A j \in 1..(i - 1) : a[j] = b[j]

\* datetime.fromisoformat(key): an aware datetime, compared as its UTC
\* instant (minutes after 2024-01-01T00:00Z)
fromisoformat(k) == 60 * k[1] - 60 * k[2]

\* max(dict.keys()): the index of the greatest key in str order
MaxKeyIndex(entries) ==
    CHOOSE i \in DOMAIN entries :
        /\ \A j \in DOMAIN entries : ~StrLess(entries[i].timestamp, entries[j].timestamp)
        /\ \A j \in 1..(i - 1) :
              StrLess(entries[j].timestamp, entries[i].timestamp)

\* max(dict.keys(), key=fromisoformat): the first key, in dict order, that
\* no key exceeds
MaxDatetimeIndex(entries) ==
    CHOOSE i \in DOMAIN entries :
        /\ \A j \in DOMAIN entries :
              fromisoformat(entries[j].timestamp) <= fromisoformat(entries[i].timestamp)
        /\ \A j \in 1..(i - 1) :
              fromisoformat(entries[j].timestamp) < fromisoformat(entries[i].timestamp)

\* `if descriptive_data:` is false for None and for an empty dict
Truthy(dd) == ~dd.is_none /\ dd.entries # <<>>

---------------------------------------------------------------------------
(* Outcomes of a call *)

ReturnNone == [kind |-> "none", value |-> <<>>, exc |-> "", latest |-> <<>>]

Return(v, k) == [kind |-> "value", value |-> v, exc |-> "", latest |-> k]

Raise(e, k) == [kind |-> "raise", value |-> <<>>, exc |-> e, latest |-> k]

---------------------------------------------------------------------------
(* Summary scalars *)

\* latest_data = descriptive_data[max(descriptive_data.keys())]
LatestEntry(dd) == dd.entries[MaxKeyIndex(dd.entries)]

\* fetch_field_count counting the organisations, not their distinct values
fetch_field_count_per_organisation(dd, field_name, txt) ==
    IF Truthy(dd)
    THEN LET latest_data == LatestEntry(dd).snapshot
             num_countries == Len(latest_data)
         IN  Return(<<Decimal(num_countries), "Br",
                      txt \o (IF num_countries > 1 THEN "ies" ELSE "y")>>,
                    LatestEntry(dd).timestamp)
    ELSE ReturnNone

fetch_field_count(dd, field_name, txt) ==
    IF Truthy(dd)
    THEN LET latest_data == LatestEntry(dd).snapshot
             num_countries == Cardinality({data[field_name] : data \in Range(latest_data)})
         IN  Return(<<Decimal(num_countries), "Br",
                      txt \o (IF num_countries > 1 THEN "ies" ELSE "y")>>,
                    LatestEntry(dd).timestamp)
    ELSE ReturnNone

\* fetch_number_of_keys with the plural from one key on
fetch_number_of_keys_plural_from_one(dd, txt) ==
    IF Truthy(dd)
    THEN LET latest_data == LatestEntry(dd).snapshot
         IN  Return(<<Decimal(Len(latest_data)), "Br",
                      txt \o (IF Len(latest_data) >= 1 THEN "s" ELSE "")>>,
                    LatestEntry(dd).timestamp)
    ELSE ReturnNone

fetch_number_of_keys(dd, txt) ==
    IF Truthy(dd)
    THEN LET latest_data == LatestEntry(dd).snapshot
         IN  Return(<<Decimal(Len(latest_data)), "Br",
                      txt \o (IF Len(latest_data) > 1 THEN "s" ELSE "")>>,
                    LatestEntry(dd).timestamp)
    ELSE ReturnNone

fetch_total_sample_size(dd, txt) ==
    IF Truthy(dd)
    THEN LET latest_data == LatestEntry(dd).snapshot
             num_patients == Sum([i \in DOMAIN latest_data |-> latest_data[i].sample_size])
         IN  Return(<<Decimal(num_patients), "Br",
                      txt \o (IF num_patients > 1 THEN "s" ELSE "")>>,
                    LatestEntry(dd).timestamp)
    ELSE ReturnNone

---------------------------------------------------------------------------
(* Bar chart of the sample sizes *)

\* round(size / total, ndigits=2), in hundredths.  size / total is the
\* double nearest the quotient and round() rounds that double correctly,
\* to even on an exact tie.  A tie is a quotient (2k+1)/200; below a total
\* of 40 its reduced denominator is 8, so the double is exact and the tie
\* is real.
\* round2 that cuts the third decimal off
round2_truncating(size, total) == (100 * size) \div total

round2(size, total) ==
    LET q == (100 * size) \div total
        r == (100 * size) % total
    IN  IF 2 * r < total THEN q
        ELSE IF 2 * r > total THEN q + 1
        ELSE IF q % 2 = 0 THEN q ELSE q + 1

generate_sample_size_horizontal_bar(dd, txt) ==
    IF Truthy(dd)
    THEN LET latest_data == LatestEntry(dd).snapshot
             sample_sizes == [i \in DOMAIN latest_data |-> latest_data[i].sample_size]
             total_sample_size == Sum(sample_sizes)
             proportions == [i \in DOMAIN sample_sizes |->
                                round2(sample_sizes[i], total_sample_size)]
             organisations == sorted({latest_data[i].name : i \in DOMAIN latest_data})
             data == [i \in DOMAIN organisations |->
                         [name |-> organisations[i],
                          x |-> proportions[i],
                          hover_sample_size |-> sample_sizes[i],
                          hover_percent |-> proportions[i]]]
             \* x in two-hundredths: sum(proportions[:i + 1]) - proportions[i] / 2
             annotations == [i \in DOMAIN organisations |->
                                [x |-> 2 * Sum(SubSeq(proportions, 1, i)) - proportions[i],
                                 text |-> Decimal(sample_sizes[i])]]
         IN  IF latest_data # <<>> /\ total_sample_size = 0
             THEN Raise("ZeroDivisionError", LatestEntry(dd).timestamp)
             ELSE Return([data |-> data, annotations |-> annotations,
                          title |-> "Number of " \o txt \o "s per organisation"],
                         LatestEntry(dd).timestamp)
    ELSE ReturnNone

---------------------------------------------------------------------------
(* Donut chart *)

\* country_data[data["country"]] += int(data["sample_size"])
country_data(latest_data) ==
    [c \in {latest_data[i].country : i \in DOMAIN latest_data} |->
        Sum([i \in DOMAIN latest_data |->
                IF latest_data[i].country = c THEN latest_data[i].sample_size ELSE 0])]

\* the chart of the latest snapshot: the body under `if descriptive_data:`
donut_chart(entry, txt, chart_type) ==
    LET latest_data == entry.snapshot
    IN  IF chart_type = "organisation"
        THEN Return([labels |-> sorted({latest_data[i].name : i \in DOMAIN latest_data}),
                     values |-> [i \in DOMAIN latest_data |-> latest_data[i].sample_size],
                     title |-> txt \o "s per organisation"], entry.timestamp)
        ELSE \* chart_type = "country"
             IF latest_data = <<>>
             THEN \* labels, sample_sizes = zip() of no items
                  Raise("ValueError", entry.timestamp)
             ELSE LET cd == country_data(latest_data)
                      labels == sorted(DOMAIN cd)
                  IN  Return([labels |-> labels,
                              values |-> [i \in DOMAIN labels |-> cd[labels[i]]],
                              title |-> txt \o "s per country"], entry.timestamp)

\* generate_donut_chart without its `if descriptive_data:`
generate_donut_chart_unguarded(dd, txt, chart_type) ==
    IF dd.is_none THEN Raise("AttributeError", <<>>)
    ELSE IF dd.entries = <<>> THEN Raise("ValueError", <<>>)
    ELSE donut_chart(LatestEntry(dd), txt, chart_type)

generate_donut_chart(dd, txt, chart_type) ==
    IF Truthy(dd) THEN donut_chart(LatestEntry(dd), txt, chart_type) ELSE ReturnNone

---------------------------------------------------------------------------
(* FAIR data availability table *)

NCIT == "http://ncicb.nci.nih.gov/xml/owl/EVS/Thesaurus.owl#"

\* info['class'].replace(prefix + ":", uri) for the first prefix of
\* prefixes that occurs in the class; the classes of the model
replace_prefix(class) ==
    CASE class = "ncit:C1" -> NCIT \o "C1"
      [] class = "ncit:C3" -> NCIT \o "C3"
      [] OTHER -> class

\* tooltip.replace(uri, prefix + ":"), applied to the class a tooltip shows
restore_prefix(class) ==
    CASE class = NCIT \o "C1" -> "ncit:C1"
      [] class = NCIT \o "C2" -> "ncit:C2"
      [] class = NCIT \o "C3" -> "ncit:C3"
      [] class = NCIT \o "C4" -> "ncit:C4"
      [] OTHER -> class

\* name.replace('_', ' ').title(), for the names of the model
title(name) ==
    CASE name = "age_group" -> "Age Group"
      [] name = "sex" -> "Sex"
      [] name = "child" -> "Child"
      [] name = "adult" -> "Adult"
      [] OTHER -> name

\* global_schema_data.get('variable_info'), {} when it is None
variable_info_of(schema) ==
    IF schema.has_variable_info THEN schema.variable_info ELSE <<>>

\* the record the KeyError handler substitutes
KeyErrorInfo ==
    [main_class |-> "", main_class_count |-> 0, sub_class |-> "", sub_class_count |-> 0]

\* org_variable_info[organisation] for a variable of class `class`
org_variable_info(org, class) ==
    IF org.has_variable_info
    THEN SelectSeq(org.variable_info, LAMBDA info : info.main_class = class)
    ELSE <<KeyErrorInfo>>

Matches(info, class, sub) == info.main_class = class /\ info.sub_class = sub

\* total_count: every matching record of every organisation is added
total_count(orgs, class, sub, count_field) ==
    Sum([i \in DOMAIN orgs |->
            LET info_list == org_variable_info(orgs[i], class)
            IN  Sum([j \in DOMAIN info_list |->
                        IF Matches(info_list[j], class, sub)
                        THEN info_list[j][count_field] ELSE 0])])

\* the index of the record at which the loop over info_list breaks, 0 when
\* it runs to its end (or info_list is empty)
FirstMatch(info_list, class, sub) ==
    IF \E j \in DOMAIN info_list : Matches(info_list[j], class, sub)
    THEN CHOOSE j \in DOMAIN info_list :
            /\ Matches(info_list[j], class, sub)
            /\ \A k \in 1..(j - 1) : ~Matches(info_list[k], class, sub)
    ELSE 0

\* row[organisation] taken from the first record of the class when no
\* record matches the row
org_cell_first_record(org, class, sub, count_field) ==
    LET info_list == org_variable_info(org, class)
        j == FirstMatch(info_list, class, sub)
    IN  IF j # 0 THEN info_list[j][count_field]
        ELSE IF info_list = <<>> THEN 0 ELSE info_list[1][count_field]

\* row[organisation]: the count of the record the loop breaks at, else 0
org_cell(org, class, sub, count_field) ==
    LET info_list == org_variable_info(org, class)
        j == FirstMatch(info_list, class, sub)
    IN  IF j = 0 THEN 0 ELSE info_list[j][count_field]

\* tooltip_row[organisation]
org_tooltip(org, class, sub, count_field) ==
    LET info_list == org_variable_info(org, class)
        j == FirstMatch(info_list, class, sub)
    IN  IF j = 0 THEN [kind |-> "unavailable", count |-> 0]
        ELSE [kind |-> "available", count |-> info_list[j][count_field]]

RECURSIVE Flatten(_)
Flatten(ss) == IF ss = <<>> THEN <<>> ELSE Head(ss) \o Flatten(Tail(ss))

\* org_data of a variable row: one entry per organisation that has a
\* matching record, showing the main_class_count of info_list[0]
variable_org_data(orgs, class) ==
    Flatten([i \in DOMAIN orgs |->
                LET info_list == org_variable_info(orgs[i], class)
                IN  IF FirstMatch(info_list, class, class) # 0
                    THEN <<[org |-> orgs[i].name, count |-> info_list[1].main_class_count]>>
                    ELSE <<>>])

\* org_data of a value row: one entry per matching record
value_org_data(orgs, class, target) ==
    Flatten([i \in DOMAIN orgs |->
                LET info_list == org_variable_info(orgs[i], class)
                    hits == SelectSeq(info_list, LAMBDA info : Matches(info, class, target))
                IN  [j \in DOMAIN hits |->
                        [org |-> orgs[i].name, count |-> hits[j].sub_class_count]]])

OrgNamesOf(orgs) == {orgs[i].name : i \in DOMAIN orgs}

OrgNamed(orgs, name) == orgs[CHOOSE i \in DOMAIN orgs : orgs[i].name = name]

\* the row and the tooltip row of a variable
variable_row(variable, orgs) ==
    LET class == replace_prefix(variable.class)
    IN  [row |-> [Variables |-> title(variable.name),
                  Values |-> "",
                  Total |-> total_count(orgs, class, class, "main_class_count"),
                  orgs |-> [n \in OrgNamesOf(orgs) |->
                              org_cell(OrgNamed(orgs, n), class, class, "main_class_count")]],
         tooltip |-> [Variables |-> <<title(variable.name), restore_prefix(class)>>,
                      Values |-> "",
                      Total |-> variable_org_data(orgs, class),
                      orgs |-> [n \in OrgNamesOf(orgs) |->
                                  org_tooltip(OrgNamed(orgs, n), class, class,
                                              "main_class_count")]]]

\* the row and the tooltip row of one term of a variable's value mapping
value_row(variable, term, orgs) ==
    LET class == replace_prefix(variable.class)
        target == replace_prefix(term.target_class)
    IN  [row |-> [Variables |-> "",
                  Values |-> title(term.name),
                  Total |-> total_count(orgs, class, target, "sub_class_count"),
                  orgs |-> [n \in OrgNamesOf(orgs) |->
                              org_cell(OrgNamed(orgs, n), class, target, "sub_class_count")]],
         tooltip |-> [Variables |-> "",
                      Values |-> <<title(variable.name), title(term.name),
                                   restore_prefix(target)>>,
                      Total |-> value_org_data(orgs, class, target),
                      orgs |-> [n \in OrgNamesOf(orgs) |->
                                  org_tooltip(OrgNamed(orgs, n), class, target,
                                              "sub_class_count")]]]

\* df_rows with the rows of all variables first and the value rows after
\* them
table_rows_values_last(variables, orgs) ==
    [v \in DOMAIN variables |-> variable_row(variables[v], orgs)] \o
    Flatten([v \in DOMAIN variables |->
                [t \in DOMAIN variables[v].terms |->
                    value_row(variables[v], variables[v].terms[t], orgs)]])

\* df_rows and tooltips, in step: per variable its row, then its value rows
table_rows(variables, orgs) ==
    Flatten([v \in DOMAIN variables |->
                <<variable_row(variables[v], orgs)>> \o
                [t \in DOMAIN variables[v].terms |->
                    value_row(variables[v], variables[v].terms[t], orgs)]])

\* pd.DataFrame(df_rows): the columns are the keys of the rows, none when
\* there is no row
data_frame(rows, organizations) ==
    [columns |-> IF rows = <<>> THEN <<>>
                 ELSE <<"Variables", "Values", "Total " \o text \o "s">> \o organizations,
     rows |-> rows]

\* display_df: a tick or a cross in the columns after the third
display_rows(rows) ==
    [r \in DOMAIN rows |->
        [rows[r] EXCEPT !.orgs = [n \in DOMAIN rows[r].orgs |->
                                     IF rows[r].orgs[n] > 0 THEN "tick" ELSE "cross"]]]

\* create_data_table(df, tooltips): the cell width divides by the number of
\* columns
create_data_table(columns, data, tooltips, latest) ==
    IF Len(columns) = 0
    THEN Raise("ZeroDivisionError", latest)
    ELSE Return([columns |-> columns, data |-> data, tooltip_data |-> tooltips], latest)

generate_fair_data_availability(schema, dd, txt) ==
    IF dd.is_none THEN Raise("AttributeError", <<>>)
    ELSE IF dd.entries = <<>> THEN \* max() of an empty sequence
         Raise("ValueError", <<>>)
    ELSE LET most_recent == dd.entries[MaxDatetimeIndex(dd.entries)]
             orgs == most_recent.snapshot
             organizations == [i \in DOMAIN orgs |-> orgs[i].name]
             both == table_rows(variable_info_of(schema), orgs)
             df_rows == [r \in DOMAIN both |-> both[r].row]
             tooltips == [r \in DOMAIN both |-> both[r].tooltip]
             df == data_frame(df_rows, organizations)
             table == create_data_table(df.columns, display_rows(df_rows), tooltips,
                                        most_recent.timestamp)
         IN  IF table.kind = "raise" THEN table
             ELSE Return([df |-> df, table |-> table.value], most_recent.timestamp)

---------------------------------------------------------------------------
(* Completeness chart *)

\* the stored frame: df.to_json(orient='split') read back by pd.read_json
\* keeps the columns, the order of the rows and their str and int cells
NoData == [stored |-> FALSE, columns |-> <<>>, rows |-> <<>>]

StoredData(df) == [stored |-> TRUE, columns |-> df.columns, rows |-> df.rows]

TotalColumn == "Total " \o text \o "s"

\* df[column] of a row, for a count column
Cell(row, column) == IF column = TotalColumn THEN row.Total ELSE row.orgs[column]

\* initial_df['Variables'].replace('', np.nan).ffill(), at row r
ffill(rows, r) ==
    LET above == {q \in 1..r : rows[q].Variables # ""}
    IN  rows[CHOOSE q \in above : \A p \in above : p <= q].Variables

\* the rows of available_variable_counts_df / of the value rows
VariableRows(rows) == {r \in DOMAIN rows : rows[r].Variables # ""}

ValueRows(rows) == {r \in DOMAIN rows : rows[r].Values # ""}

\* column_counts: groupby('Variables')[column].sum() over the value rows
column_counts(rows, column) ==
    [g \in {ffill(rows, r) : r \in ValueRows(rows)} |->
        Sum([r \in DOMAIN rows |->
                IF r \in ValueRows(rows) /\ ffill(rows, r) = g
                THEN Cell(rows[r], column) ELSE 0])]

\* the columns of unavailable_df after the loop: while the frame is empty
\* it is replaced, not joined, so without value rows only the last column
\* is left
joined_columns(rows, count_columns) ==
    IF ValueRows(rows) = {} THEN <<count_columns[Len(count_columns)]>>
    ELSE count_columns

\* the columns of left.subtract(right): kept when both frames have the same
\* columns, else their sorted union
subtract_columns(left, right) ==
    IF left = right THEN left ELSE sorted(Range(left) \cup Range(right))

\* V of a variable in a column: the count in the variable's own row
variable_count(rows, g, column) ==
    Cell(rows[CHOOSE r \in VariableRows(rows) : rows[r].Variables = g], column)

\* the difference made positive without clipping the positive differences
unavailable_count_unclipped(rows, g, column) ==
    LET counts == column_counts(rows, column)
        S == IF g \in DOMAIN counts THEN counts[g] ELSE 0
        diff == S - variable_count(rows, g, column)
    IN  IF diff < 0 THEN 0 - diff ELSE diff

\* S - V with fill_value=0, then clip(upper=0).abs()
unavailable_count(rows, g, column) ==
    LET counts == column_counts(rows, column)
        S == IF g \in DOMAIN counts THEN counts[g] ELSE 0
        diff == S - variable_count(rows, g, column)
        clipped == IF diff > 0 THEN 0 ELSE diff
    IN  IF clipped < 0 THEN 0 - clipped ELSE clipped

\* available_count taken to be the sum of the value rows
available_count_value_sum(rows, g, column) ==
    LET counts == column_counts(rows, column)
    IN  IF g \in DOMAIN counts THEN counts[g] ELSE 0

\* available_variable_counts_df - unavailable_df
available_count(rows, g, column) ==
    variable_count(rows, g, column) - unavailable_count(rows, g, column)

generate_completeness_chart(data, txt) ==
    LET rows == data.rows
        count_columns == SubSeq(data.columns, 3, Len(data.columns))
        variables == {rows[r].Variables : r \in VariableRows(rows)}
        unavailable_columns == subtract_columns(joined_columns(rows, count_columns),
                                                count_columns)
        available_columns == subtract_columns(count_columns, unavailable_columns)
        \* .columns[2:] of the frames after reset_index()
        unavailable_orgs == SubSeq(unavailable_columns, 2, Len(unavailable_columns))
        available_orgs == SubSeq(available_columns, 2, Len(available_columns))
    IN  Return([Variables |-> variables,
                \* unavailable_counts, available_counts: the frames as dicts,
                \* column -> variable -> count (the total column under its
                \* name before the renaming)
                unavailable_counts |->
                    [c \in Range(count_columns) |->
                        [g \in variables |-> unavailable_count(rows, g, c)]],
                available_counts |->
                    [c \in Range(count_columns) |->
                        [g \in variables |-> available_count(rows, g, c)]],
                available |-> [g \in variables |-> available_count(rows, g, TotalColumn)],
                unavailable |-> [g \in variables |-> unavailable_count(rows, g, TotalColumn)],
                hover_available |->
                    [g \in variables |->
                        [i \in DOMAIN available_orgs |->
                            [org |-> available_orgs[i],
                             count |-> available_count(rows, g, available_orgs[i])]]],
                hover_unavailable |->
                    [g \in variables |->
                        [i \in DOMAIN unavailable_orgs |->
                            [org |-> unavailable_orgs[i],
                             count |-> unavailable_count(rows, g, unavailable_orgs[i])]]]],
               <<>>)

---------------------------------------------------------------------------
(* Inputs *)

\* the organisations of a summary snapshot carry no 'variable_info'
Organisation(name, size, country) ==
    [name |-> name, sample_size |-> size, country |-> country,
     has_variable_info |-> FALSE, variable_info |-> <<>>]

Entry(key, snapshot) == [timestamp |-> key, snapshot |-> snapshot]

Dict(entries) == [is_none |-> FALSE, entries |-> entries]

None == [is_none |-> TRUE, entries |-> <<>>]

OrgNames(n) == {OrgOrder[i] : i \in 1..Min(n, Len(OrgOrder))}

Injective(f) == \A i, j \in DOMAIN f : f[i] = f[j] => i = j

\* one snapshot; the organisations in any insertion order, any sample
\* sizes and countries
OrderedSnapshots ==
    UNION {
        {[i \in 1..n |-> Organisation(names[i], sizes[i], countries[i])] :
            names \in {f \in [1..n -> OrgNames(MaxOrgs)] : Injective(f)},
            sizes \in [1..n -> 0..MaxSize],
            countries \in [1..n -> Countries]} : n \in 1..MaxOrgs}

\* one snapshot that varies the positive sample sizes only
SizedSnapshots ==
    UNION {
        {[i \in 1..n |-> Organisation(OrgOrder[i], sizes[i], "NL")] :
            sizes \in [1..n -> 1..MaxBarSize]} : n \in 1..Min(MaxBarOrgs, Len(OrgOrder))}

\* the first n organisations, one record each
PlainSnapshot(n) == [i \in 1..n |-> Organisation(OrgOrder[i], 1, "NL")]

\* keys with two hours and two UTC offsets
TimestampKeys == {TimestampKey(h, o) : h \in 1..2, o \in 0..1}

\* several snapshots under distinct keys, in any insertion order
SnapshotSeries ==
    UNION {
        {[i \in 1..k |-> Entry(keys[i], PlainSnapshot(sizes[i]))] :
            keys \in {f \in [1..k -> TimestampKeys] : Injective(f)},
            sizes \in [1..k -> 0..Min(MaxOrgs, Len(OrgOrder))]} : k \in 1..MaxSnapshots}

SummaryInputs ==
    {None, Dict(<<>>)}
        \cup {Dict(<<Entry(TimestampKey(1, 0), snapshot)>>) :
                snapshot \in OrderedSnapshots \cup SizedSnapshots}
        \cup {Dict(entries) : entries \in SnapshotSeries}

Variable(name, class, terms) == [name |-> name, class |-> class, terms |-> terms]

Term(name, target_class) == [name |-> name, target_class |-> target_class]

Schema(variables) == [has_variable_info |-> TRUE, variable_info |-> variables]

NoVariableInfo == [has_variable_info |-> FALSE, variable_info |-> <<>>]

SummarySchema ==
    Schema(<<Variable("age_group", "ncit:C1", <<Term("child", "ncit:C3")>>)>>)

---------------------------------------------------------------------------
(* Inputs of the availability table.  The schema has the variables        *)
(* age_group (class ncit:C1, terms child -> ncit:C3 and adult -> the full  *)
(* URI of C4) and sex (the full URI of C2, no value mapping), any of them, *)
(* in any order.  A record of an organisation names the class of age_group *)
(* with the class itself or a term's class as its sub class, or the class  *)
(* of sex.                                                                 *)

AgeGroupTerms == <<Term("child", "ncit:C3"), Term("adult", NCIT \o "C4")>>

AgeGroups == {Variable("age_group", "ncit:C1", SubSeq(AgeGroupTerms, 1, n)) : n \in 0..2}

Sex == Variable("sex", NCIT \o "C2", <<>>)

Schemas ==
    {NoVariableInfo, Schema(<<>>), Schema(<<Sex>>)}
        \cup {Schema(<<a>>) : a \in AgeGroups}
        \cup {Schema(<<a, Sex>>) : a \in AgeGroups}
        \cup {Schema(<<Sex, a>>) : a \in AgeGroups}

Info(main_class, main_class_count, sub_class, sub_class_count) ==
    [main_class |-> main_class, main_class_count |-> main_class_count,
     sub_class |-> sub_class, sub_class_count |-> sub_class_count]

\* a record of the class itself carries its count in main_class_count, a
\* record of a term in sub_class_count
Infos ==
    {Info(NCIT \o "C1", n, NCIT \o "C1", 0) : n \in 0..MaxCount}
        \cup {Info(NCIT \o "C1", 0, NCIT \o "C3", n) : n \in 0..MaxCount}
        \cup {Info(NCIT \o "C1", 0, NCIT \o "C4", n) : n \in 0..MaxCount}
        \cup {Info(NCIT \o "C2", n, NCIT \o "C2", 0) : n \in 0..MaxCount}

\* an organisation's 'variable_info': a list of records, or no such key
VariableInfos(n) ==
    IF n = 0 THEN {[has |-> FALSE, list |-> <<>>], [has |-> TRUE, list |-> <<>>]}
    ELSE {[has |-> TRUE, list |-> l] : l \in [1..n -> Infos]}

OrganisationWith(name, vi) ==
    [name |-> name, sample_size |-> 1, country |-> "NL",
     has_variable_info |-> vi.has, variable_info |-> vi.list]

\* the organisations A and B with at most MaxRecords records between them
RecordedSnapshots ==
    UNION {
        {<<OrganisationWith("A", a), OrganisationWith("B", b)>> :
            a \in VariableInfos(n[1]), b \in VariableInfos(n[2])} :
        n \in {m \in (0..MaxRecords) \X (0..MaxRecords) : m[1] + m[2] <= MaxRecords}}

AvailabilityInputs ==
    {None, Dict(<<>>)}
        \cup {Dict(<<Entry(TimestampKey(1, 0), snapshot)>>) : snapshot \in RecordedSnapshots}

---------------------------------------------------------------------------
(* The calls *)

Idle ==
    [fn |-> "", arg |-> "", kind |-> "idle", value |-> <<>>, exc |-> "", latest |-> <<>>]

\* fn(..., arg) ended with outcome
Called(fn, arg, outcome) ==
    [fn |-> fn, arg |-> arg, kind |-> outcome.kind, value |-> outcome.value,
     exc |-> outcome.exc, latest |-> outcome.latest]

Call(fn, arg, outcome) ==
    /\ ret' = Called(fn, arg, outcome)
    /\ UNCHANGED <<global_schema_data, descriptive_data, availability_data>>

call_fetch_field_count ==
    \E field_name \in {"country", "sample_size"} :
        Call("fetch_field_count", field_name,
             fetch_field_count(descriptive_data, field_name, "countr"))

call_fetch_number_of_keys ==
    Call("fetch_number_of_keys", "",
         fetch_number_of_keys(descriptive_data, "organisation"))

call_fetch_total_sample_size ==
    Call("fetch_total_sample_size", "", fetch_total_sample_size(descriptive_data, text))

call_generate_sample_size_horizontal_bar ==
    Call("generate_sample_size_horizontal_bar", "",
         generate_sample_size_horizontal_bar(descriptive_data, text))

call_generate_donut_chart ==
    \E chart_type \in {"organisation", "country"} :
        Call("generate_donut_chart", chart_type,
             generate_donut_chart(descriptive_data, text, chart_type))

\* the caller keeps the returned frame for generate_completeness_chart
call_generate_fair_data_availability ==
    LET outcome == generate_fair_data_availability(global_schema_data, descriptive_data,
                                                   text)
    IN  /\ ret' = Called("generate_fair_data_availability", "", outcome)
        /\ availability_data' = IF outcome.kind = "value"
                                THEN StoredData(outcome.value.df)
                                ELSE availability_data
        /\ UNCHANGED <<global_schema_data, descriptive_data>>

call_generate_completeness_chart ==
    /\ availability_data.stored
    /\ Call("generate_completeness_chart", "",
            generate_completeness_chart(availability_data, text))

---------------------------------------------------------------------------
(* Specifications *)

Init ==
    /\ global_schema_data = SummarySchema
    /\ descriptive_data \in SummaryInputs
    /\ availability_data = NoData
    /\ ret = Idle

Next ==
    \/ call_fetch_field_count
    \/ call_fetch_number_of_keys
    \/ call_fetch_total_sample_size
    \/ call_generate_sample_size_horizontal_bar
    \/ call_generate_donut_chart
    \/ call_generate_fair_data_availability
    \/ call_generate_completeness_chart

Spec == Init /\ [][Next]_vars

InitAvailability ==
    /\ global_schema_data \in Schemas
    /\ descriptive_data \in AvailabilityInputs
    /\ availability_data = NoData
    /\ ret = Idle

NextAvailability ==
    \/ call_generate_fair_data_availability
    \/ call_generate_completeness_chart

SpecAvailability == InitAvailability /\ [][NextAvailability]_vars

---------------------------------------------------------------------------
(* Properties *)

Returned(fn) == ret.fn = fn /\ ret.kind = "value"

NonEmpty(dd) == ~dd.is_none /\ dd.entries # <<>>

\* the snapshot descriptive_data holds under key k
SnapshotUnder(k) ==
    (CHOOSE e \in Range(descriptive_data.entries) : e.timestamp = k).snapshot

SampleSizes(snapshot) == [i \in DOMAIN snapshot |-> snapshot[i].sample_size]

\* a precedes b in str order
StrBefore(a, b) ==
    \E i, j \in DOMAIN StrOrder : i < j /\ StrOrder[i] = a /\ StrOrder[j] = b

Ascending(names) == \A i, j \in DOMAIN names : i < j => StrBefore(names[i], names[j])

\* the organisation columns of a data frame
OrganisationColumns(columns) == SubSeq(columns, 4, Len(columns))

\* C1: in the table generate_fair_data_availability returns, the total cell
\* of every row, variable row or value row, is the sum of the row's
\* organisation cells.
C1_TotalIsSumOfOrganisationCells ==
    Returned("generate_fair_data_availability") =>
        LET df == ret.value.df
            organisations == OrganisationColumns(df.columns)
        IN  \A r \in DOMAIN df.rows :
                df.rows[r].Total =
                    Sum([i \in DOMAIN organisations |-> df.rows[r].orgs[organisations[i]]])

\* C2: for every variable of the availability table, the chart's complete
\* (available) and incomplete (unavailable) bar values add up to the total
\* cell of the variable's row.
C2_AvailablePlusUnavailableIsTotal ==
    Returned("generate_completeness_chart") =>
        \A r \in DOMAIN availability_data.rows :
            LET row == availability_data.rows[r]
            IN  row.Variables # "" =>
                    /\ row.Variables \in ret.value.Variables
                    /\ ret.value.available[row.Variables]
                         + ret.value.unavailable[row.Variables] = row.Total

\* a chart of a table in which a variable has complete information
C2_Witness ==
    /\ Returned("generate_completeness_chart")
    /\ \E g \in ret.value.Variables : ret.value.available[g] > 0

\* C3: the traces of the bar chart are in the order of the organisation
\* names, and the trace named after an organisation carries that
\* organisation's sample size and proportion, whatever the order of the
\* organisations in the snapshot.
C3_TraceCarriesItsOwnOrganisation ==
    Returned("generate_sample_size_horizontal_bar") =>
        LET data == ret.value.data
            snapshot == SnapshotUnder(ret.latest)
            total == Sum(SampleSizes(snapshot))
        IN  /\ Ascending([i \in DOMAIN data |-> data[i].name])
            /\ \A o \in DOMAIN snapshot :
                  \E i \in DOMAIN data :
                      /\ data[i].name = snapshot[o].name
                      /\ data[i].hover_sample_size = snapshot[o].sample_size
                      /\ data[i].x = round2(snapshot[o].sample_size, total)

\* the sum of the bars' x values, in hundredths
SumOfProportions == Sum([i \in DOMAIN ret.value.data |-> ret.value.data[i].x])

PositiveTotal == Sum(SampleSizes(SnapshotUnder(ret.latest))) > 0

\* C4, as claimed: with a positive total sample size the proportions of the
\* bar chart add up to between 0.99 and 1.01, for any number of
\* organisations.
C4_ProportionsSumWithinOneHundredth ==
    (Returned("generate_sample_size_horizontal_bar") /\ PositiveTotal) =>
        (99 <= SumOfProportions /\ SumOfProportions <= 101)

\* C4, amended: with a positive total sample size the proportions of the
\* bar chart add up to 1 within half a hundredth per organisation.
C4_ProportionsSumWithinHalfPerOrganisation ==
    (Returned("generate_sample_size_horizontal_bar") /\ PositiveTotal) =>
        LET n == Len(ret.value.data)
        IN  /\ 2 * (SumOfProportions - 100) <= n
            /\ 2 * (100 - SumOfProportions) <= n

\* a bar chart whose proportions add up to less than 0.99
C4_Witness ==
    /\ Returned("generate_sample_size_horizontal_bar")
    /\ PositiveTotal
    /\ SumOfProportions < 99

\* C5: the labels of the donut chart ascend and each is paired with the
\* sample size of its own group: of the organisation it names, or the sum
\* over the organisations of the country it names.
C5_LabelPairedWithItsOwnGroup ==
    Returned("generate_donut_chart") =>
        LET labels == ret.value.labels
            values == ret.value.values
            snapshot == SnapshotUnder(ret.latest)
        IN  /\ Ascending(labels)
            /\ Len(values) = Len(labels)
            /\ ret.arg = "organisation" =>
                  \A i \in DOMAIN labels :
                      \E o \in DOMAIN snapshot :
                          /\ snapshot[o].name = labels[i]
                          /\ values[i] = snapshot[o].sample_size
            /\ ret.arg = "country" =>
                  \A i \in DOMAIN labels :
                      values[i] = Sum([o \in DOMAIN snapshot |->
                                          IF snapshot[o].country = labels[i]
                                          THEN snapshot[o].sample_size ELSE 0])

\* the entry under the greatest key of descriptive_data, in str order
GreatestKeyEntry ==
    CHOOSE e \in Range(descriptive_data.entries) :
        \A f \in Range(descriptive_data.entries) : ~StrLess(e.timestamp, f.timestamp)

\* C6: for non-empty descriptive_data fetch_number_of_keys reports the
\* number of distinct organisation keys of the latest snapshot, in decimal,
\* and the text with an 's' exactly when that number exceeds 1.
C6_NumberOfKeysOfLatestSnapshot ==
    (ret.fn = "fetch_number_of_keys" /\ NonEmpty(descriptive_data)) =>
        LET n == Cardinality({o.name : o \in Range(GreatestKeyEntry.snapshot)})
        IN  /\ ret.kind = "value"
            /\ ret.value[1] = Decimal(n)
            /\ ret.value[3] = IF n > 1 THEN "organisations" ELSE "organisation"

\* the count of a latest snapshot of several organisations, among several
\* snapshots
C6_Witness ==
    /\ Returned("fetch_number_of_keys")
    /\ Len(descriptive_data.entries) > 1
    /\ Len(GreatestKeyEntry.snapshot) > 1
    /\ ret.value[3] = "organisations"

\* the functions that take descriptive_data
DescriptiveFunctions ==
    {"fetch_field_count", "fetch_number_of_keys", "fetch_total_sample_size",
     "generate_sample_size_horizontal_bar", "generate_donut_chart",
     "generate_fair_data_availability"}

\* the outcome of fn(dd, arg)
Outcome(fn, arg, dd) ==
    CASE fn = "fetch_field_count" -> fetch_field_count(dd, arg, "countr")
      [] fn = "fetch_number_of_keys" -> fetch_number_of_keys(dd, "organisation")
      [] fn = "fetch_total_sample_size" -> fetch_total_sample_size(dd, text)
      [] fn = "generate_sample_size_horizontal_bar" ->
            generate_sample_size_horizontal_bar(dd, text)
      [] fn = "generate_donut_chart" -> generate_donut_chart(dd, text, arg)
      [] fn = "generate_fair_data_availability" ->
            generate_fair_data_availability(global_schema_data, dd, text)

\* C7: for non-empty descriptive_data every operation uses the snapshot
\* with the latest timestamp: the key it selects is the greatest in str
\* order and the latest as a datetime, and its outcome is that of the
\* selected snapshot alone.
C7_AllOperationsUseTheLatestSnapshot ==
    (ret.fn \in DescriptiveFunctions /\ NonEmpty(descriptive_data)) =>
        LET keys == {e.timestamp : e \in Range(descriptive_data.entries)}
            alone == Outcome(ret.fn, ret.arg,
                             Dict(<<Entry(ret.latest, SnapshotUnder(ret.latest))>>))
        IN  /\ \A k \in keys : ~StrLess(ret.latest, k)
            /\ \A k \in keys : fromisoformat(k) <= fromisoformat(ret.latest)
            /\ alone.kind = ret.kind
            /\ alone.exc = ret.exc
            /\ alone.value = ret.value

\* the functions that guard on `if descriptive_data:`
GuardedFunctions ==
    {"fetch_field_count", "fetch_number_of_keys", "fetch_total_sample_size",
     "generate_sample_size_horizontal_bar", "generate_donut_chart"}

\* C8: on empty descriptive_data (None or an empty dict) the summary
\* functions and the two chart functions return None and raise nothing.
C8_EmptyDataYieldsNone ==
    (ret.fn \in GuardedFunctions /\ ~NonEmpty(descriptive_data)) => ret.kind = "none"

\* a donut chart asked of an empty dict
C8_Witness ==
    /\ ret.fn = "generate_donut_chart"
    /\ ~descriptive_data.is_none
    /\ descriptive_data.entries = <<>>
    /\ ret.kind = "none"

\* C9: on an empty dict generate_fair_data_availability returns nothing and
\* does not raise.
C9_EmptyDataYieldsNoTable ==
    (/\ ret.fn = "generate_fair_data_availability"
     /\ ~descriptive_data.is_none
     /\ descriptive_data.entries = <<>>) => ret.kind = "none"

\* C10: with no (or an empty) 'variable_info' in global_schema_data and
\* non-empty descriptive_data, generate_fair_data_availability returns a
\* table of zero rows and does not raise.
C10_EmptySchemaYieldsEmptyTable ==
    (/\ ret.fn = "generate_fair_data_availability"
     /\ variable_info_of(global_schema_data) = <<>>
     /\ NonEmpty(descriptive_data)) =>
        /\ ret.kind = "value"
        /\ ret.value.df.rows = <<>>

\* the class pair each row of the table stands for, in schema order: the
\* variable's class twice for its own row, its class and the term's target
\* class for a value row
RowKeys(variables) ==
    Flatten([v \in DOMAIN variables |->
                LET class == replace_prefix(variables[v].class)
                IN  <<[class |-> class, sub |-> class, variable |-> v, term |-> 0]>> \o
                    [t \in DOMAIN variables[v].terms |->
                        [class |-> class,
                         sub |-> replace_prefix(variables[v].terms[t].target_class),
                         variable |-> v, term |-> t]]])

\* the organisation's record holds a record of the row's class pair
HasMatch(org, key) ==
    /\ org.has_variable_info
    /\ \E i \in DOMAIN org.variable_info :
            /\ org.variable_info[i].main_class = key.class
            /\ org.variable_info[i].sub_class = key.sub

\* C11: for non-empty data and a schema with a variable,
\* generate_fair_data_availability returns a table (it does not raise, with
\* or without 'variable_info' in an organisation's record); every row has a
\* cell for every organisation of the latest snapshot, and the cell is 0
\* when the organisation lacks 'variable_info' or holds no record of the
\* row's main_class/sub_class pair.
C11_MissingInformationYieldsZeroCell ==
    (/\ ret.fn = "generate_fair_data_availability"
     /\ NonEmpty(descriptive_data)
     /\ variable_info_of(global_schema_data) # <<>>) =>
        /\ ret.kind = "value"
        /\ LET df == ret.value.df
               snapshot == SnapshotUnder(ret.latest)
               keys == RowKeys(variable_info_of(global_schema_data))
           IN  /\ OrganisationColumns(df.columns) = [i \in DOMAIN snapshot |-> snapshot[i].name]
               /\ \A r \in DOMAIN df.rows :
                    /\ DOMAIN df.rows[r].orgs = OrgNamesOf(snapshot)
                    /\ r \in DOMAIN keys =>
                        \A i \in DOMAIN snapshot :
                            ~HasMatch(snapshot[i], keys[r]) =>
                                df.rows[r].orgs[snapshot[i].name] = 0

\* a table for an organisation without 'variable_info' next to one whose
\* only record is of another sub class than the row's, in a value row
C11_Witness ==
    /\ Returned("generate_fair_data_availability")
    /\ LET snapshot == SnapshotUnder(ret.latest)
           keys == RowKeys(variable_info_of(global_schema_data))
       IN  /\ \E i \in DOMAIN snapshot : ~snapshot[i].has_variable_info
           /\ \E i \in DOMAIN snapshot, r \in DOMAIN keys :
                /\ snapshot[i].has_variable_info
                /\ keys[r].term # 0
                /\ ~HasMatch(snapshot[i], keys[r])
                /\ \E j \in DOMAIN snapshot[i].variable_info :
                    /\ snapshot[i].variable_info[j].main_class = keys[r].class
                    /\ snapshot[i].variable_info[j].sub_class_count > 0
                /\ ret.value.df.rows[r].orgs[snapshot[i].name] = 0

\* the organisations of a snapshot that are the first to hold their value
\* of the field
FirstHolders(snapshot, field_name) ==
    {i \in DOMAIN snapshot :
        \A j \in 1..(i - 1) : snapshot[j][field_name] # snapshot[i][field_name]}

\* C12: for non-empty descriptive_data fetch_field_count reports, in
\* decimal, the number of distinct values of the field ('country' or
\* another) over the organisations of the latest snapshot, organisations
\* sharing a value counted once, and the text with 'ies' when that number
\* exceeds 1 and with 'y' otherwise.
C12_FieldCountIsNumberOfDistinctValues ==
    (ret.fn = "fetch_field_count" /\ NonEmpty(descriptive_data)) =>
        LET n == Cardinality(FirstHolders(GreatestKeyEntry.snapshot, ret.arg))
        IN  /\ ret.kind = "value"
            /\ ret.value[1] = Decimal(n)
            /\ ret.value[3] = IF n > 1 THEN "countries" ELSE "country"

\* the count of one country shared by two organisations
C12_Witness ==
    /\ Returned("fetch_field_count")
    /\ ret.arg = "country"
    /\ Len(GreatestKeyEntry.snapshot) = 2
    /\ GreatestKeyEntry.snapshot[1].country = GreatestKeyEntry.snapshot[2].country
    /\ ret.value[1] = <<1>>
    /\ ret.value[3] = "country"

\* the value rows of the variable row v: the rows after it up to the next
\* variable row
OwnValueRows(rows, v) ==
    {r \in DOMAIN rows : r > v /\ \A q \in (v + 1)..r : rows[q].Variables = ""}

\* S: the sum of a column over the value rows of the variable row v
ValueSum(rows, v, column) ==
    Sum([r \in DOMAIN rows |->
            IF r \in OwnValueRows(rows, v) THEN Cell(rows[r], column) ELSE 0])

\* C13: in generate_completeness_chart, for every variable and every count
\* column (the total column and each organisation column), with V the count
\* in the variable's row and S the sum over its value rows (0 without value
\* rows), the unavailable count is max(0, V - S) and the available count is
\* V - unavailable = min(V, S); both are at least 0 and available is at
\* most V.
C13_UnavailableIsClippedDifference ==
    Returned("generate_completeness_chart") =>
        LET rows == availability_data.rows
            columns == SubSeq(availability_data.columns, 3, Len(availability_data.columns))
        IN  \A v \in DOMAIN rows : \A i \in DOMAIN columns :
                rows[v].Variables # "" =>
                    LET V == Cell(rows[v], columns[i])
                        S == ValueSum(rows, v, columns[i])
                        unavailable == ret.value.unavailable_counts[columns[i]][rows[v].Variables]
                        available == ret.value.available_counts[columns[i]][rows[v].Variables]
                    IN  /\ unavailable = (IF V - S > 0 THEN V - S ELSE 0)
                        /\ available = V - unavailable
                        /\ available = Min(V, S)
                        /\ unavailable >= 0
                        /\ available >= 0
                        /\ available <= V

\* a chart of a table with a column in which S exceeds V (the difference is
\* clipped) and a variable without value rows whose count is positive
C13_Witness ==
    /\ Returned("generate_completeness_chart")
    /\ LET rows == availability_data.rows
           columns == SubSeq(availability_data.columns, 3, Len(availability_data.columns))
       IN  /\ \E v \in DOMAIN rows, i \in DOMAIN columns :
                /\ rows[v].Variables # ""
                /\ Cell(rows[v], columns[i]) < ValueSum(rows, v, columns[i])
           /\ \E v \in DOMAIN rows :
                /\ rows[v].Variables # ""
                /\ OwnValueRows(rows, v) = {}
                /\ rows[v].Total > 0

\* the place of the row of the v-th schema variable: after the rows and the
\* value rows of the variables before it
RowOf(variables, v) ==
    v + Sum([u \in 1..(v - 1) |-> Len(variables[u].terms)])

\* C14: the rows of the table generate_fair_data_availability returns
\* follow the schema: per variable, in schema order, its row ('Variables'
\* its name, 'Values' empty) and right after it one row per term of its
\* value mapping, in their order ('Variables' empty, 'Values' the term); the
\* number of rows is the number of variables plus the number of terms, and
\* the nearest variable row above a value row is that of its own variable.
C14_RowsFollowSchemaOrder ==
    Returned("generate_fair_data_availability") =>
        LET rows == ret.value.df.rows
            variables == variable_info_of(global_schema_data)
        IN  /\ Len(rows) = Len(variables)
                            + Sum([v \in DOMAIN variables |-> Len(variables[v].terms)])
            /\ \A v \in DOMAIN variables :
                LET first == RowOf(variables, v)
                IN  /\ first \in DOMAIN rows
                    /\ rows[first].Variables = title(variables[v].name)
                    /\ rows[first].Variables # ""
                    /\ rows[first].Values = ""
                    /\ \A t \in DOMAIN variables[v].terms :
                        /\ first + t \in DOMAIN rows
                        /\ rows[first + t].Variables = ""
                        /\ rows[first + t].Values = title(variables[v].terms[t].name)
                        /\ rows[first + t].Values # ""
                        /\ \A q \in (first + 1)..(first + t) : rows[q].Variables = ""

\* a table of two variables, the first with two terms
C14_Witness ==
    /\ Returned("generate_fair_data_availability")
    /\ Len(variable_info_of(global_schema_data)) = 2
    /\ Len(variable_info_of(global_schema_data)[1].terms) = 2
    /\ Len(ret.value.df.rows) = 4
    /\ ret.value.df.rows[4].Variables = "Sex"

\* C15: in every variable row of the table generate_fair_data_availability
\* returns, the tooltip of the total column lists an organisation exactly
\* when the organisation's cell comes from a matching record, once, and
\* with the value of that cell as its count.
C15_TotalTooltipAgreesWithCells ==
    Returned("generate_fair_data_availability") =>
        LET rows == ret.value.df.rows
            tooltips == ret.value.table.tooltip_data
            snapshot == SnapshotUnder(ret.latest)
            keys == RowKeys(variable_info_of(global_schema_data))
        IN  \A r \in DOMAIN rows :
                (r \in DOMAIN keys /\ rows[r].Variables # "") =>
                    LET listed == tooltips[r].Total
                    IN  /\ \A i \in DOMAIN snapshot :
                            HasMatch(snapshot[i], keys[r]) <=>
                                \E j \in DOMAIN listed : listed[j].org = snapshot[i].name
                        /\ \A j, k \in DOMAIN listed :
                            listed[j].org = listed[k].org => j = k
                        /\ \A j \in DOMAIN listed :
                            listed[j].count = rows[r].orgs[listed[j].org]

\* the total cell of every row of the stored table is the sum of the row's
\* organisation cells
TotalsAreSums ==
    LET organisations == OrganisationColumns(availability_data.columns)
    IN  \A r \in DOMAIN availability_data.rows :
            availability_data.rows[r].Total =
                Sum([i \in DOMAIN organisations |->
                        availability_data.rows[r].orgs[organisations[i]]])

\* C16: for a table whose totals are the sums of its organisation cells,
\* the chart's total of unavailable counts of every variable is the sum of
\* the counts per organisation listed in the same hover text, and so is the
\* total of available counts.
C16_HoverSharesSumToTotals ==
    (Returned("generate_completeness_chart") /\ TotalsAreSums) =>
        \A g \in ret.value.Variables :
            LET unavailable == ret.value.hover_unavailable[g]
                available == ret.value.hover_available[g]
            IN  /\ ret.value.unavailable[g]
                    = Sum([i \in DOMAIN unavailable |-> unavailable[i].count])
                /\ ret.value.available[g]
                    = Sum([i \in DOMAIN available |-> available[i].count])

===========================================================================
